---- MODULE Spec2Model ----
(***************************************************************************)
(* callisto: the engine adapters of callisto_engines/src/lib.rs.           *)
(*                                                                         *)
(* A string is a sequence of one-character strings, so that the string     *)
(* operations of derive_table_from_fs_name (split, last, replace) are      *)
(* computed character by character as the code computes them.              *)
(*                                                                         *)
(* Two specifications:                                                     *)
(*   Spec        one engine instance (Polars, DuckDB or DataFusion) that   *)
(*               serves execute calls one after another;                   *)
(*   SpecDerive  derive_table_from_fs_name applied to every string over a  *)
(*               small alphabet, and to the two strings spec.md names.     *)
(***************************************************************************)
EXTENDS Naturals, Sequences, FiniteSets, TLC

VARIABLES
    engine,                 \* which EngineInterface implementation this instance is
    files,                  \* the identifiers this session's statements reference
    fs_name_to_table_name,  \* the registry: a function fs identifier -> table name
    catalog,                \* the underlying engine's tables: name -> fs identifier backing it
    pc,                     \* where execute is: idle, register, loop, done
    query,                  \* the query text of the current call, one entry per statement
    ast,                    \* the parsed statements the loop has not reached yet
    statement,              \* the statement of the current iteration (its relation references)
    rewritten,              \* load_tables' rewritten copy of it
    new_tables,             \* load_tables' new_tables vector
    executions,             \* execute's executions vector
    result,                 \* what execute returned
    reg_calls,              \* history: the registration calls of the current load_tables
    submitted,              \* history: the statements handed to the engine in this call
    reg_before,             \* history: the registry as load_tables found it
    reg_ok,                 \* history: identifiers whose registration call succeeded
    call_regs,              \* history: identifiers the current execute call committed
    after_error,            \* history: whether the previous execute call returned an error
    returned,                \* what execute handed back to its caller: <<>> until it returns
    reg_failed,             \* history: unregistered identifiers whose registration has failed
    frame,                  \* the DataFrame one Polars stream carries: batches, bytes per message
    encoder,                \* the spawn_blocking task running IpcStreamWriter::finish
    polars_server,          \* the encoder's end of the duplex pipe: "open" or "dropped"
    pipe,                   \* the bytes in the duplex buffer, as chunks of one message each
    arrow_client,           \* the decoder's end of the duplex pipe: "open" or "dropped"
    decoder,                \* the spawn_blocking task running StreamReader and blocking_send
    datafusion_tx,          \* the sender of the mpsc channel: "open" or "dropped"
    queue,                  \* the items buffered in the mpsc channel
    datafusion_rx,          \* the receiver inside StreamFromPolars: "open" or "dropped"
    received,               \* history: the items poll_next has yielded
    ended,                  \* poll_next has yielded None
    faults,                 \* history: the failures that happened in the bridge
    lines,                  \* Repl::run: the input lines not yet read
    read_end,               \* what next_line returns after the last line: "eof" or "error"
    repl_pc,                \* where Repl::run is: prompt, execute, streams, goodbye, returned
    command,                \* the trimmed line of the current iteration
    repl_executions,        \* the streams of the current line not yet consumed
    output,                 \* what Repl::run has written, in order
    passed,                 \* history: the commands given to engine.execute
    exec_result,            \* history: what engine.execute returned for the current line
    run_result,             \* what Repl::run returned
    c_in,                   \* SpecConvert: the polars schema given to convert_schema
    c_pos,                  \* SpecConvert: 0, or the field whose type was given
                            \* to convert_datatype
    c_out,                  \* SpecConvert: what the conversion returned
    d_in,                   \* SpecDerive: the argument of derive_table_from_fs_name
    d_out                   \* SpecDerive: its result

evars == <<engine, files, fs_name_to_table_name, catalog, pc, query, ast, statement,
           rewritten, new_tables, executions, result, reg_calls, submitted,
           reg_before, reg_ok, call_regs, after_error, returned, reg_failed>>
dvars == <<d_in, d_out>>
bvars == <<frame, encoder, polars_server, pipe, arrow_client, decoder, datafusion_tx,
           queue, datafusion_rx, received, ended, faults>>
rvars == <<lines, read_end, repl_pc, command, repl_executions, output, passed,
           exec_result, run_result>>
cvars == <<c_in, c_pos, c_out>>
vars == <<evars, dvars, bvars, rvars, cvars>>

----------------------------------------------------------------------------
(* Bounds *)

\* statements in one query text
MaxStmts == 2
\* relation references in one statement
MaxRefs == 2
\* length of the strings SpecDerive enumerates
MaxLen == 3
\* batches in the materialized result of one DuckDB statement
MaxResultBatches == 1
\* input lines of one Repl::run
MaxLines == 2
\* batches of the small frames the bridge carries; failures of the workers are
\* explored on these
MaxSmallFrame == 2
\* batches by which the large frame the bridge carries exceeds the channel
MaxOverQueue == 2

----------------------------------------------------------------------------
(* Strings *)

None == "None"
\* A panic in place of a string: no string holds a two-character element.
Panic == <<"!!">>

\* str::split(sep): the pieces between separators; never empty.
RECURSIVE SplitAcc(_, _, _, _, _)
SplitAcc(s, sep, i, cur, acc) ==
    IF i > Len(s) THEN Append(acc, cur)
    ELSE IF s[i] = sep THEN SplitAcc(s, sep, i + 1, <<>>, Append(acc, cur))
    ELSE SplitAcc(s, sep, i + 1, Append(cur, s[i]), acc)

Split(s, sep) == SplitAcc(s, sep, 1, <<>>, <<>>)

\* Iterator::last(): an Option, <<last item>> for Some and <<>> for None.
IterLast(items) == IF items = <<>> THEN <<>> ELSE <<items[Len(items)]>>

\* Option::unwrap(): the value, or a panic.
Unwrap(opt) == IF opt = <<>> THEN Panic ELSE opt[1]

\* Whether pat occurs in s at position i.
MatchAt(s, pat, i) ==
    /\ i + Len(pat) - 1 <= Len(s)
    /\ \A k \in 1..Len(pat) : s[i + k - 1] = pat[k]

\* str::replace(pat, to): every non-overlapping match of pat, left to right,
\* replaced by to. An empty pat matches before every character and at the end.
RECURSIVE ReplaceFrom(_, _, _, _)
ReplaceFrom(s, pat, to, i) ==
    IF pat = <<>>
    THEN IF i > Len(s) THEN to
         ELSE to \o <<s[i]>> \o ReplaceFrom(s, pat, to, i + 1)
    ELSE IF i > Len(s) THEN <<>>
         ELSE IF MatchAt(s, pat, i)
              THEN to \o ReplaceFrom(s, pat, to, i + Len(pat))
              ELSE <<s[i]>> \o ReplaceFrom(s, pat, to, i + 1)

Replace(s, pat, to) == ReplaceFrom(s, pat, to, 1)

TblPrefix == <<"t", "b", "l", "_">>

\* A plausible slip: the '*' replacement left out.
derive_without_star(fs_name) ==
    LET last == Unwrap(IterLast(Split(fs_name, "/")))
    IN  IF last = Panic THEN Panic
        ELSE TblPrefix \o Replace(Replace(last, <<".">>, <<"_">>), <<"-">>, <<"_">>)

\* A plausible slip: the first path component instead of the last.
derive_first_component(fs_name) ==
    LET first == Split(fs_name, "/")[1]
    IN  TblPrefix \o Replace(Replace(Replace(first, <<".">>, <<"_">>),
                                     <<"-">>, <<"_">>), <<"*">>, <<"_">>)

derive_table_from_fs_name(fs_name) ==
    LET last == Unwrap(IterLast(Split(fs_name, "/")))
    IN  IF last = Panic THEN Panic
        ELSE TblPrefix \o Replace(Replace(Replace(last, <<".">>, <<"_">>),
                                          <<"-">>, <<"_">>), <<"*">>, <<"_">>)

----------------------------------------------------------------------------
(* SpecDerive: derive_table_from_fs_name on bounded inputs *)

Alphabet == {"a", "7", "/", ".", "-", "*", " "}

RECURSIVE StringsUpTo(_)
StringsUpTo(n) ==
    IF n = 0 THEN {<<>>}
    ELSE LET shorter == StringsUpTo(n - 1)
         IN  shorter \cup {Append(s, c) : s \in shorter, c \in Alphabet}

\* "data/events.parquet"
FsEvents == <<"d","a","t","a","/","e","v","e","n","t","s",".","p","a","r","q","u","e","t">>
\* "a/b-c*.parquet"
FsGlob == <<"a","/","b","-","c","*",".","p","a","r","q","u","e","t">>

DeriveInputs == StringsUpTo(MaxLen) \cup {FsEvents, FsGlob}

NotCalled == <<"??">>

----------------------------------------------------------------------------
(* The engine instance *)

Engines == {"Polars", "DuckDB", "DataFusion"}

\* "a/t.p" and "b/t.p" share their final path component; "m p" holds a space.
FsA == <<"a", "/", "t", ".", "p">>
FsB == <<"b", "/", "t", ".", "p">>
FsSp == <<"m", " ", "p">>
\* The table name load_tables derives for FsA, written as a relation reference.
TblTP == <<"t", "b", "l", "_", "t", "_", "p">>
\* A session references the identifiers of one of these sets.
FileSets == {{FsA, FsB}, {FsA, TblTP}, {FsSp}}

RECURSIVE SeqsUpTo(_, _)
SeqsUpTo(S, n) ==
    IF n = 0 THEN {<<>>}
    ELSE LET shorter == SeqsUpTo(S, n - 1)
         IN  shorter \cup {Append(s, x) : s \in shorter, x \in S}

\* The relation references of one statement, in visiting order.
RefLists(fs) == SeqsUpTo(fs, MaxRefs)

\* A query text: per statement, whether the parser accepts it. What a well-formed
\* statement references is read by nothing before the loop reaches it, and is
\* drawn there.
Queries == SeqsUpTo(BOOLEAN, MaxStmts)

EmptyMap == [x \in {} |-> None]

\* BTreeMap::insert
Insert(map, key, value) ==
    [k \in DOMAIN map \cup {key} |-> IF k = key THEN value ELSE map[k]]

\* Parser::parse_statements: the statements, or an error if any is malformed.
\* A plausible slip: a parser that stops at the first statement.
ParseFirstOnly(q) ==
    IF q # <<>> /\ ~q[1] THEN [ok |-> FALSE] ELSE [ok |-> TRUE, ast |-> q]

ParseStatements(q) ==
    IF \E i \in 1..Len(q) : ~q[i] THEN [ok |-> FALSE] ELSE [ok |-> TRUE, ast |-> q]

\* The closure load_tables hands to visit_relations_mut, applied to the
\* references in order: each is replaced by the cached or the derived name, and
\* an identifier the registry does not hold is pushed to new_tables.
\* A plausible slip: the registry is not consulted.
VisitIgnoringRegistry(refs, registry) ==
    [rewritten |-> [i \in 1..Len(refs) |-> derive_table_from_fs_name(refs[i])],
     new_tables |-> [i \in 1..Len(refs) |->
                        <<refs[i], derive_table_from_fs_name(refs[i])>>]]

RECURSIVE VisitFrom(_, _, _, _, _)
VisitFrom(refs, registry, i, rw, nt) ==
    IF i > Len(refs) THEN [rewritten |-> rw, new_tables |-> nt]
    ELSE LET symbol_or_file == refs[i]
             hit == symbol_or_file \in DOMAIN registry
             table_name == IF hit THEN registry[symbol_or_file]
                           ELSE derive_table_from_fs_name(symbol_or_file)
         IN  VisitFrom(refs, registry, i + 1,
                       Append(rw, Replace(symbol_or_file, symbol_or_file, table_name)),
                       IF hit THEN nt ELSE Append(nt, <<symbol_or_file, table_name>>))

VisitRelations(refs, registry) == VisitFrom(refs, registry, 1, <<>>, <<>>)

\* The registration call each engine makes for one new_tables entry, given
\* whether the file can be read: its outcome and the engine's catalog after it.
\* Polars registers over an existing name; CREATE TABLE and register_parquet
\* refuse a name the catalog already holds.
EngineRegister(eng, cat, table_name, fs_name, readable) ==
    IF eng = "Polars"
    THEN [ok |-> readable,
          cat |-> IF readable THEN Insert(cat, table_name, fs_name) ELSE cat]
    ELSE LET ok == readable /\ table_name \notin DOMAIN cat
         IN  [ok |-> ok,
              cat |-> IF ok THEN Insert(cat, table_name, fs_name) ELSE cat]

\* A registration failure ends load_tables with an error only where the code
\* propagates it with `?`.
RegistrationFailureIsFatal(eng) == eng = "DuckDB"

\* Whether a successful registration is committed to the registry.
\* A plausible slip: the insert moved out of the success branch.
CommitAlways(ok) == TRUE

CommitMapping(ok) == ok

\* The registry after one registration call.
\* A plausible slip: the map rebuilt from the new entry alone.
RegistryReplaced(registry, fs_name, table_name, ok) ==
    IF CommitMapping(ok) THEN Insert(EmptyMap, fs_name, table_name) ELSE registry

RegistryAfter(registry, fs_name, table_name, ok) ==
    IF CommitMapping(ok) THEN Insert(registry, fs_name, table_name) ELSE registry

\* The engine runs a statement only if every relation it names is in its catalog.
EngineCanRun(cat, names) == \A i \in 1..Len(names) : names[i] \in DOMAIN cat

StmtIdx == Len(query) - Len(ast)

\* Where execute goes when load_tables or the engine returns an error: `?`
\* returns it to the caller.
\* A plausible slip: the error is noted and the loop goes on.
ContinueAfterError == "loop"

PcAfterError == "done"

\* The registry an execute call that returns an error leaves behind: the map is
\* a field changed in place, and `?` returns without touching it.
\* A plausible slip: the failed statement's entries are rolled back.
RegistryRolledBack(registry, before) == before

RegistryOnError(registry, before) == registry

\* What execute hands back: Ok(executions) after the loop, or the error that
\* `?` returned, with which the executions vector is dropped.
\* A plausible slip: the streams built so far are handed back with the error.
ReturnsPartial(res, execs) == [ok |-> res = "Ok", error |-> res, streams |-> execs]

ReturnValue(res, execs) ==
    [ok |-> res = "Ok", error |-> res,
     streams |-> IF res = "Ok" THEN execs ELSE <<>>]

\* The entries load_tables' loop goes over: all of new_tables; nothing keeps
\* track of identifiers whose registration failed before.
\* A plausible slip: identifiers that failed once are skipped.
SkipFailed(new, failed) == SelectSeq(new, LAMBDA e : e[1] \notin failed)

ToRegister(new, failed) == new

\* Where the loop goes once load_tables has visited a statement: to the
\* registrations and the engine run of that statement.
\* A plausible slip: all statements are rewritten before any is run.
VisitNextFirst == "loop"

PcAfterVisit == "register"

\* What execute pushes to executions: the statement as parsed, and the stream.
\* A plausible slip: the rewritten statement is pushed.
RewrittenEntry(stmt, rw, stream) == [statement |-> [refs |-> rw], stream |-> stream]

ExecutionEntry(stmt, rw, stream) == [statement |-> stmt, stream |-> stream]

\* The batch counts drawn for a statement's materialized result: none, and
\* MaxResultBatches. Only DuckDB's
\* adapter collects the batches inside execute; the other two hand out a
\* stream that produces them later.
ResultBatches(eng) == IF eng = "DuckDB" THEN {0, MaxResultBatches} ELSE {0}

\* res[0].schema(): indexing an empty Vec panics.
\* A plausible slip the other way: the schema taken from the statement, not
\* from the first batch.
SchemaFromStatement(nb) == [panic |-> FALSE]

FirstBatchSchema(nb) == [panic |-> nb = 0]

\* The stream execute wraps the result in: DuckDB's replays the collected
\* batches 1..nb in order.
ResultStream(eng, rw, nb) ==
    IF eng = "DuckDB" THEN [names |-> rw, batches |-> [i \in 1..nb |-> i]]
    ELSE [names |-> rw, batches |-> "lazy"]

NoStatement == [refs |-> <<>>]

\* No Repl::run is in progress.
NoRepl ==
    /\ lines = <<>>
    /\ read_end = "eof"
    /\ repl_pc = "none"
    /\ command = <<>>
    /\ repl_executions = <<>>
    /\ output = <<>>
    /\ passed = <<>>
    /\ exec_result = None
    /\ run_result = None

\* No schema is being converted.
NoConvert ==
    /\ c_in = <<>>
    /\ c_pos = 0
    /\ c_out = NotCalled

\* No stream is being bridged.
NoBridge ==
    /\ frame = [batches |-> 0, bytes |-> 0]
    /\ encoder = [pc |-> "none", msg |-> 0, rem |-> 0]
    /\ polars_server = "dropped"
    /\ pipe = <<>>
    /\ arrow_client = "dropped"
    /\ decoder = [pc |-> "none", have |-> 0, item |-> <<>>]
    /\ datafusion_tx = "dropped"
    /\ queue = <<>>
    /\ datafusion_rx = "dropped"
    /\ received = <<>>
    /\ ended = FALSE
    /\ faults = {}

Init ==
    /\ engine \in Engines
    /\ files \in FileSets
    /\ fs_name_to_table_name = EmptyMap
    /\ catalog = EmptyMap
    /\ pc = "idle"
    /\ query = <<>>
    /\ ast = <<>>
    /\ statement = NoStatement
    /\ rewritten = <<>>
    /\ new_tables = <<>>
    /\ executions = <<>>
    /\ result = None
    /\ reg_calls = <<>>
    /\ submitted = <<>>
    /\ reg_before = EmptyMap
    /\ reg_ok = {}
    /\ call_regs = {}
    /\ after_error = FALSE
    /\ returned = <<>>
    /\ reg_failed = {}
    /\ d_in = <<>>
    /\ d_out = NotCalled
    /\ NoBridge
    /\ NoRepl
    /\ NoConvert

\* execute, up to the loop: the whole text is parsed first.
Execute(q) ==
    /\ pc = "idle"
    /\ query' = q
    /\ LET parsed == ParseStatements(q)
       IN  IF parsed.ok
           THEN /\ ast' = parsed.ast
                /\ pc' = "loop"
                /\ result' = None
                /\ UNCHANGED returned
           ELSE /\ ast' = <<>>
                /\ pc' = "done"
                /\ result' = "ParseError"
                /\ returned' = <<ReturnValue("ParseError", executions)>>
    /\ UNCHANGED <<engine, files, fs_name_to_table_name, catalog, statement,
                   rewritten, new_tables, executions, reg_calls, submitted,
                   reg_before, reg_ok, call_regs, after_error, reg_failed, dvars,
                   bvars, rvars, cvars>>

\* The loop takes the next statement; load_tables clones it and visits its
\* relations.
LoadTablesVisit(refs) ==
    /\ pc = "loop"
    /\ ast # <<>>
    /\ ast' = Tail(ast)
    /\ statement' = [refs |-> refs]
    /\ LET v == VisitRelations(refs, fs_name_to_table_name)
       IN  /\ rewritten' = v.rewritten
           /\ new_tables' = ToRegister(v.new_tables, reg_failed)
    /\ reg_before' = fs_name_to_table_name
    /\ reg_calls' = <<>>
    /\ pc' = PcAfterVisit
    /\ UNCHANGED <<engine, files, fs_name_to_table_name, catalog, query, executions,
                   result, submitted, reg_ok, call_regs, after_error, returned,
                   reg_failed, dvars, bvars, rvars, cvars>>

\* One iteration of load_tables' loop over new_tables.
Register(readable) ==
    /\ pc = "register"
    /\ new_tables # <<>>
    /\ LET fs_name == Head(new_tables)[1]
           table_name == Head(new_tables)[2]
           r == EngineRegister(engine, catalog, table_name, fs_name, readable)
       IN  /\ catalog' = r.cat
           /\ fs_name_to_table_name' =
                  RegistryAfter(fs_name_to_table_name, fs_name, table_name, r.ok)
           /\ reg_calls' = Append(reg_calls, [fs |-> fs_name, name |-> table_name,
                                              ok |-> r.ok])
           /\ reg_ok' = IF r.ok THEN reg_ok \cup {fs_name} ELSE reg_ok
           /\ call_regs' = IF r.ok THEN call_regs \cup {fs_name} ELSE call_regs
           /\ reg_failed' = IF r.ok THEN reg_failed ELSE reg_failed \cup {fs_name}
           /\ IF ~r.ok /\ RegistrationFailureIsFatal(engine)
              THEN /\ pc' = PcAfterError
                   /\ result' = "RegisterError"
                   /\ returned' = <<ReturnValue("RegisterError", executions)>>
                   /\ UNCHANGED new_tables
              ELSE /\ pc' = "register"
                   /\ new_tables' = Tail(new_tables)
                   /\ UNCHANGED <<result, returned>>
    /\ UNCHANGED <<engine, files, query, ast, statement, rewritten, executions,
                   submitted, reg_before, after_error, dvars, bvars, rvars, cvars>>

\* load_tables returns the rewritten statement and the engine is given it; on
\* success the result is wrapped as a stream and pushed. nb is the number of
\* batches DuckDB's materialized result has.
EngineExecute(engine_ok, nb) ==
    /\ pc = "register"
    /\ new_tables = <<>>
    /\ submitted' = Append(submitted, StmtIdx)
    /\ IF ~(engine_ok /\ EngineCanRun(catalog, rewritten))
       THEN /\ pc' = PcAfterError
            /\ result' = "ExecuteError"
            /\ fs_name_to_table_name' =
                   RegistryOnError(fs_name_to_table_name, reg_before)
            /\ returned' = <<ReturnValue("ExecuteError", executions)>>
            /\ UNCHANGED executions
       ELSE IF engine = "DuckDB" /\ FirstBatchSchema(nb).panic
       THEN /\ pc' = "crashed"
            /\ result' = "Panicked"
            /\ UNCHANGED <<executions, fs_name_to_table_name, returned>>
       ELSE /\ executions' =
                   Append(executions,
                          ExecutionEntry(statement, rewritten,
                                         ResultStream(engine, rewritten, nb)))
            /\ pc' = "loop"
            /\ UNCHANGED <<result, fs_name_to_table_name, returned>>
    /\ UNCHANGED <<engine, files, catalog, query, ast,
                   statement, rewritten, new_tables, reg_calls, reg_before, reg_ok,
                   call_regs, after_error, reg_failed, dvars, bvars, rvars, cvars>>

\* The loop has run out of statements: Ok(executions).
ReturnOk ==
    /\ pc = "loop"
    /\ ast = <<>>
    /\ pc' = "done"
    /\ result' = "Ok"
    /\ returned' = <<ReturnValue("Ok", executions)>>
    /\ UNCHANGED <<engine, files, fs_name_to_table_name, catalog, query, ast, statement,
                   rewritten, new_tables, executions, reg_calls, submitted,
                   reg_before, reg_ok, call_regs, after_error, reg_failed, dvars,
                   bvars, rvars, cvars>>

\* What execute returns as Err.
ErrorResults == {"ParseError", "RegisterError", "ExecuteError"}

\* The caller is done with what execute returned; the instance lives on.
DropResults ==
    /\ pc = "done"
    /\ pc' = "idle"
    /\ query' = <<>>
    /\ ast' = <<>>
    /\ statement' = NoStatement
    /\ rewritten' = <<>>
    /\ new_tables' = <<>>
    /\ executions' = <<>>
    /\ result' = None
    /\ reg_calls' = <<>>
    /\ submitted' = <<>>
    /\ reg_before' = EmptyMap
    /\ call_regs' = {}
    /\ after_error' = (result \in ErrorResults)
    /\ returned' = <<>>
    /\ reg_failed' = reg_failed \ DOMAIN fs_name_to_table_name
    /\ UNCHANGED <<engine, files, fs_name_to_table_name, catalog, reg_ok, dvars, bvars, rvars, cvars>>

Next ==
    \/ \E q \in Queries : Execute(q)
    \/ \E refs \in RefLists(files) : LoadTablesVisit(refs)
    \/ \E readable \in BOOLEAN : Register(readable)
    \/ \E engine_ok \in BOOLEAN, nb \in ResultBatches(engine) :
          EngineExecute(engine_ok, nb)
    \/ ReturnOk
    \/ DropResults

Spec == Init /\ [][Next]_vars

----------------------------------------------------------------------------
(* SpecDerive *)

InitDerive ==
    /\ d_in \in DeriveInputs
    /\ d_out = NotCalled
    /\ engine = "Polars"
    /\ files = {}
    /\ fs_name_to_table_name = EmptyMap
    /\ catalog = EmptyMap
    /\ pc = "idle"
    /\ query = <<>>
    /\ ast = <<>>
    /\ statement = NoStatement
    /\ rewritten = <<>>
    /\ new_tables = <<>>
    /\ executions = <<>>
    /\ result = None
    /\ reg_calls = <<>>
    /\ submitted = <<>>
    /\ reg_before = EmptyMap
    /\ reg_ok = {}
    /\ call_regs = {}
    /\ after_error = FALSE
    /\ returned = <<>>
    /\ reg_failed = {}
    /\ NoBridge
    /\ NoRepl
    /\ NoConvert

Derive ==
    /\ d_out = NotCalled
    /\ d_out' = derive_table_from_fs_name(d_in)
    /\ UNCHANGED <<d_in, evars, bvars, rvars, cvars>>

NextDerive == Derive

SpecDerive == InitDerive /\ [][NextDerive]_vars

----------------------------------------------------------------------------
(* The bridge of one Polars result stream (SpecBridge, SpecBridgeLive) *)

\* tokio::io::duplex(1024): the bytes one direction of the pipe buffers.
PipeCapacity == 1024

\* tokio::sync::mpsc::channel(100): the items the channel buffers.
QueueCapacity == 100

Min(a, b) == IF a <= b THEN a ELSE b

\* The frames the bridge carries: the small ones, and one that has more batches
\* than the channel holds, each with messages that fit the pipe or exceed it.
BatchCounts == (0..MaxSmallFrame) \cup {QueueCapacity + MaxOverQueue}

MessageSizes == {PipeCapacity \div 2, 2 * PipeCapacity}

\* Failures of the workers are drawn for the small frames.
FaultsExplored == frame.batches <= MaxSmallFrame

\* The frame on the wire is message 0, the schema, then one message per batch.
LastMessage == frame.batches

RECURSIVE PipeBytes(_)
PipeBytes(p) == IF p = <<>> THEN 0 ELSE Head(p).bytes + PipeBytes(Tail(p))

\* poll_write copies the bytes to the end of the buffer.
PipeWrite(p, m, k) ==
    IF p # <<>> /\ p[Len(p)].msg = m
    THEN [p EXCEPT ![Len(p)].bytes = @ + k]
    ELSE Append(p, [msg |-> m, bytes |-> k])

\* poll_read takes the bytes from the front of the buffer.
PipeRead(p, k) ==
    IF Head(p).bytes = k THEN Tail(p) ELSE [p EXCEPT ![1].bytes = @ - k]

\* Sender::blocking_send waits while the channel holds QueueCapacity items.
\* A plausible slip: an unbounded channel.
QueueUnbounded(q) == TRUE

QueueHasRoom(q) == Len(q) < QueueCapacity

\* The channel hands the items out in the order they were sent.
\* A plausible slip: the newest item first.
QueuePushFront(q, item) == <<item>> \o q

QueueSend(q, item) == Append(q, item)

\* The write end waits while the buffer holds PipeCapacity bytes.
PipeFree(p) == PipeCapacity - PipeBytes(p)

\* blocking_send returns an error once the receiver is gone.
SendFails(rx) == rx = "dropped"

\* A write to the pipe returns BrokenPipe once the read end is gone.
\* A plausible slip: a writer that does not notice and waits for room.
WriteNeverFails(client) == FALSE

WriteFails(client) == client = "dropped"

\* What the decoder's closure leaves behind when it returns: the sender and
\* the read end are dropped with it.
\* A plausible slip: the sender outlives the closure.
DecoderKeepsSender(how) ==
    /\ decoder' = [pc |-> how, have |-> 0, item |-> <<>>]
    /\ arrow_client' = "dropped"
    /\ UNCHANGED datafusion_tx

DecoderReturns(how) ==
    /\ decoder' = [pc |-> how, have |-> 0, item |-> <<>>]
    /\ datafusion_tx' = "dropped"
    /\ arrow_client' = "dropped"

\* The state after execute has built the stream: both workers spawned, nothing
\* written yet.
InitBridge ==
    /\ frame \in [batches : BatchCounts, bytes : MessageSizes]
    /\ encoder = [pc |-> "write", msg |-> 0, rem |-> frame.bytes]
    /\ polars_server = "open"
    /\ pipe = <<>>
    /\ arrow_client = "open"
    /\ decoder = [pc |-> "open", have |-> 0, item |-> <<>>]
    /\ datafusion_tx = "open"
    /\ queue = <<>>
    /\ datafusion_rx = "open"
    /\ received = <<>>
    /\ ended = FALSE
    /\ faults = {}
    /\ engine = "Polars"
    /\ files = {}
    /\ fs_name_to_table_name = EmptyMap
    /\ catalog = EmptyMap
    /\ pc = "idle"
    /\ query = <<>>
    /\ ast = <<>>
    /\ statement = NoStatement
    /\ rewritten = <<>>
    /\ new_tables = <<>>
    /\ executions = <<>>
    /\ result = None
    /\ reg_calls = <<>>
    /\ submitted = <<>>
    /\ reg_before = EmptyMap
    /\ reg_ok = {}
    /\ call_regs = {}
    /\ after_error = FALSE
    /\ returned = <<>>
    /\ reg_failed = {}
    /\ d_in = <<>>
    /\ d_out = NotCalled
    /\ NoRepl
    /\ NoConvert

\* The encoder writes as much of the current message as the pipe takes; after
\* the last byte of the last message finish returns and the closure drops its
\* end of the pipe.
EncoderWrite ==
    /\ encoder.pc = "write"
    /\ ~WriteFails(arrow_client)
    /\ PipeFree(pipe) > 0
    /\ LET k == Min(encoder.rem, PipeFree(pipe))
       IN /\ pipe' = PipeWrite(pipe, encoder.msg, k)
          /\ IF encoder.rem > k
             THEN /\ encoder' = [encoder EXCEPT !.rem = @ - k]
                  /\ UNCHANGED polars_server
             ELSE IF encoder.msg < LastMessage
             THEN /\ encoder' = [pc |-> "write", msg |-> encoder.msg + 1,
                                 rem |-> frame.bytes]
                  /\ UNCHANGED polars_server
             ELSE /\ encoder' = [pc |-> "done", msg |-> encoder.msg, rem |-> 0]
                  /\ polars_server' = "dropped"
    /\ UNCHANGED <<frame, arrow_client, decoder, datafusion_tx, queue, datafusion_rx,
                   received, ended, faults, evars, dvars, rvars, cvars>>

\* The read end is gone: the write returns BrokenPipe and finish returns it.
EncoderBrokenPipe ==
    /\ encoder.pc = "write"
    /\ WriteFails(arrow_client)
    /\ encoder' = [encoder EXCEPT !.pc = "broken"]
    /\ polars_server' = "dropped"
    /\ UNCHANGED <<frame, pipe, arrow_client, decoder, datafusion_tx, queue,
                   datafusion_rx, received, ended, faults, evars, dvars, rvars, cvars>>

\* finish fails on its own, before the frame is written whole.
EncoderFail ==
    /\ encoder.pc = "write"
    /\ FaultsExplored
    /\ encoder' = [encoder EXCEPT !.pc = "failed"]
    /\ polars_server' = "dropped"
    /\ faults' = faults \cup {"encode"}
    /\ UNCHANGED <<frame, pipe, arrow_client, decoder, datafusion_tx, queue,
                   datafusion_rx, received, ended, evars, dvars, rvars, cvars>>

\* The decoder reads what the pipe holds of the message it is assembling. With
\* the message whole, try_new has the schema, or the iterator has the next
\* item; readable says whether the message decodes.
DecoderRead(readable) ==
    /\ decoder.pc \in {"open", "next"}
    /\ pipe # <<>>
    /\ LET k == Min(Head(pipe).bytes, frame.bytes - decoder.have)
           m == Head(pipe).msg
       IN /\ pipe' = PipeRead(pipe, k)
          /\ IF decoder.have + k < frame.bytes
             THEN /\ readable
                  /\ decoder' = [decoder EXCEPT !.have = @ + k]
                  /\ UNCHANGED <<datafusion_tx, arrow_client, faults>>
             ELSE IF decoder.pc = "open"
             THEN IF readable
                  THEN /\ decoder' = [pc |-> "next", have |-> 0, item |-> <<>>]
                       /\ UNCHANGED <<datafusion_tx, arrow_client, faults>>
                  ELSE /\ FaultsExplored
                       /\ DecoderReturns("failed")
                       /\ faults' = faults \cup {"open"}
             ELSE /\ readable \/ FaultsExplored
                  /\ decoder' = [pc |-> "send", have |-> 0,
                                 item |-> <<[batch |-> m, ok |-> readable]>>]
                  /\ faults' = IF readable THEN faults ELSE faults \cup {"decode"}
                  /\ UNCHANGED <<datafusion_tx, arrow_client>>
    /\ UNCHANGED <<frame, encoder, polars_server, queue, datafusion_rx, received,
                   ended, evars, dvars, rvars, cvars>>

\* The pipe is empty and its write end is gone: the read returns end of file.
\* try_new fails without a whole schema message; the iterator ends at a message
\* boundary and yields an error inside a message.
DecoderEof ==
    /\ decoder.pc \in {"open", "next"}
    /\ pipe = <<>>
    /\ polars_server = "dropped"
    /\ IF decoder.pc = "open"
       THEN /\ DecoderReturns("failed")
            /\ faults' = faults \cup {"open"}
       ELSE IF decoder.have > 0
       THEN /\ decoder' = [pc |-> "send", have |-> 0,
                           item |-> <<[batch |-> encoder.msg, ok |-> FALSE]>>]
            /\ faults' = faults \cup {"truncated"}
            /\ UNCHANGED <<datafusion_tx, arrow_client>>
       ELSE /\ DecoderReturns("done")
            /\ UNCHANGED faults
    /\ UNCHANGED <<frame, encoder, polars_server, pipe, queue, datafusion_rx,
                   received, ended, evars, dvars, rvars, cvars>>

\* blocking_send: an error if the receiver is gone, which `?` returns; else
\* the item is queued once the channel has room, and the loop goes on.
DecoderSend ==
    /\ decoder.pc = "send"
    /\ IF SendFails(datafusion_rx)
       THEN /\ DecoderReturns("failed")
            /\ UNCHANGED queue
       ELSE /\ QueueHasRoom(queue)
            /\ queue' = QueueSend(queue, decoder.item[1])
            /\ decoder' = [pc |-> "next", have |-> 0, item |-> <<>>]
            /\ UNCHANGED <<datafusion_tx, arrow_client>>
    /\ UNCHANGED <<frame, encoder, polars_server, pipe, datafusion_rx, received,
                   ended, faults, evars, dvars, rvars, cvars>>

\* poll_next: the next queued item, or None once the channel is empty and its
\* sender is gone; pending otherwise.
ConsumerPoll ==
    /\ datafusion_rx = "open"
    /\ ~ended
    /\ IF queue # <<>>
       THEN /\ received' = Append(received, Head(queue))
            /\ queue' = Tail(queue)
            /\ UNCHANGED ended
       ELSE /\ datafusion_tx = "dropped"
            /\ ended' = TRUE
            /\ UNCHANGED <<received, queue>>
    /\ UNCHANGED <<frame, encoder, polars_server, pipe, arrow_client, decoder,
                   datafusion_tx, datafusion_rx, faults, evars, dvars, rvars, cvars>>

\* The stream is dropped before it has ended: the receiver closes the channel
\* and the queued items go with it.
ConsumerDrop ==
    /\ datafusion_rx = "open"
    /\ ~ended
    /\ datafusion_rx' = "dropped"
    /\ queue' = <<>>
    /\ UNCHANGED <<frame, encoder, polars_server, pipe, arrow_client, decoder,
                   datafusion_tx, received, ended, faults, evars, dvars, rvars, cvars>>

EncoderStep == EncoderWrite \/ EncoderBrokenPipe

DecoderStep == DecoderRead(TRUE) \/ DecoderEof \/ DecoderSend

NextBridge ==
    \/ EncoderWrite
    \/ EncoderBrokenPipe
    \/ EncoderFail
    \/ \E readable \in BOOLEAN : DecoderRead(readable)
    \/ DecoderEof
    \/ DecoderSend
    \/ ConsumerPoll
    \/ ConsumerDrop

SpecBridge == InitBridge /\ [][NextBridge]_vars

\* The workers run on the blocking pool, each on a thread of its own, and the
\* consumer keeps polling the stream it holds.
SpecBridgeLive ==
    /\ InitBridge
    /\ [][NextBridge]_vars
    /\ WF_vars(EncoderStep)
    /\ WF_vars(DecoderStep)
    /\ WF_vars(ConsumerPoll)

----------------------------------------------------------------------------
(* Repl::run (SpecRepl) *)

UpperCase == <<"B", "E", "I", "Q", "T", "U", "X", "Y">>

LowerCase == <<"b", "e", "i", "q", "t", "u", "x", "y">>

\* str::to_lowercase, character by character.
ToLowerChar(c) ==
    IF \E i \in 1..Len(UpperCase) : UpperCase[i] = c
    THEN LowerCase[CHOOSE i \in 1..Len(UpperCase) : UpperCase[i] = c]
    ELSE c

ToLowercase(str) == [i \in 1..Len(str) |-> ToLowerChar(str[i])]

IsWhitespace(c) == c \in {" ", "\t"}

RECURSIVE TrimStart(_)
TrimStart(str) ==
    IF str # <<>> /\ IsWhitespace(Head(str)) THEN TrimStart(Tail(str)) ELSE str

RECURSIVE TrimEnd(_)
TrimEnd(str) ==
    IF str # <<>> /\ IsWhitespace(str[Len(str)])
    THEN TrimEnd(SubSeq(str, 1, Len(str) - 1))
    ELSE str

\* str::trim
Trim(str) == TrimEnd(TrimStart(str))

\* ["exit", "bye", "q", "quit"]
ExitWords ==
    {<<"e", "x", "i", "t">>, <<"b", "y", "e">>, <<"q">>, <<"q", "u", "i", "t">>}

\* Whether the loop breaks on this command.
IsExitCommand(cmd) == ToLowercase(cmd) \in ExitWords

\* The lines an input is made of: exit words as they are, padded and in upper
\* case, and lines that are not exit words.
ReplLines ==
    {<<" ", "Q", "\t">>, <<"B", "y", "e">>, <<"E", "X", "I", "T", " ">>,
     <<"q", "u", "i", "t">>, <<"q", " ", "q">>, <<"s">>}

\* What engine.execute returns for a command: an error, or one stream per
\* statement; of a stream, whether it yields an error item.
Outcomes ==
    {[ok |-> FALSE, streams |-> <<>>]}
        \cup {[ok |-> TRUE, streams |-> st] : st \in SeqsUpTo({"clean", "error"}, MaxStmts)}

\* Where the loop goes after engine.execute returned an error: continue.
\* A plausible slip: the error ends the session.
ReturnOnExecuteError == "returned"

AfterExecuteError == "prompt"

\* Everything of the engine instance but its registry.
engine_rest == <<engine, files, catalog, pc, query, ast, statement, rewritten,
                 new_tables, executions, result, reg_calls, submitted, reg_before,
                 reg_ok, call_regs, after_error, returned, reg_failed>>

InitRepl ==
    /\ lines \in SeqsUpTo(ReplLines, MaxLines)
    /\ read_end \in {"eof", "error"}
    /\ repl_pc = "prompt"
    /\ command = <<>>
    /\ repl_executions = <<>>
    /\ output = <<>>
    /\ passed = <<>>
    /\ exec_result = None
    /\ run_result = None
    /\ engine = "Polars"
    /\ files = {FsA, FsB}
    /\ fs_name_to_table_name = EmptyMap
    /\ catalog = EmptyMap
    /\ pc = "idle"
    /\ query = <<>>
    /\ ast = <<>>
    /\ statement = NoStatement
    /\ rewritten = <<>>
    /\ new_tables = <<>>
    /\ executions = <<>>
    /\ result = None
    /\ reg_calls = <<>>
    /\ submitted = <<>>
    /\ reg_before = EmptyMap
    /\ reg_ok = {}
    /\ call_regs = {}
    /\ after_error = FALSE
    /\ returned = <<>>
    /\ reg_failed = {}
    /\ d_in = <<>>
    /\ d_out = NotCalled
    /\ NoBridge
    /\ NoConvert

\* The head of the while loop: the prompt is written and next_line is awaited
\* and unwrapped; None ends the loop, an exit word breaks out of it.
ReplReadLine ==
    /\ repl_pc = "prompt"
    /\ output' = Append(output, "> ")
    /\ exec_result' = None
    /\ IF lines = <<>>
       THEN /\ IF read_end = "eof"
               THEN /\ repl_pc' = "goodbye"
                    /\ UNCHANGED run_result
               ELSE /\ repl_pc' = "returned"
                    /\ run_result' = "Panicked"
            /\ UNCHANGED <<lines, command>>
       ELSE /\ lines' = Tail(lines)
            /\ command' = Trim(Head(lines))
            /\ repl_pc' = IF IsExitCommand(Trim(Head(lines))) THEN "goodbye"
                          ELSE "execute"
            /\ UNCHANGED run_result
    /\ UNCHANGED <<read_end, repl_executions, passed, fs_name_to_table_name,
                   engine_rest, dvars, bvars, cvars>>

\* engine.execute(&command): it may commit registry entries whether it returns
\* streams or an error; an error is written and the loop continues.
ReplExecute(outcome, commits) ==
    /\ repl_pc = "execute"
    /\ passed' = Append(passed, command)
    /\ fs_name_to_table_name' =
          [f \in DOMAIN fs_name_to_table_name \cup commits |->
              IF f \in DOMAIN fs_name_to_table_name THEN fs_name_to_table_name[f]
              ELSE derive_table_from_fs_name(f)]
    /\ IF outcome.ok
       THEN /\ exec_result' = "Ok"
            /\ repl_executions' = outcome.streams
            /\ repl_pc' = "streams"
            /\ UNCHANGED output
       ELSE /\ exec_result' = "Err"
            /\ output' = Append(output, "Error:")
            /\ repl_pc' = AfterExecuteError
            /\ UNCHANGED repl_executions
    /\ UNCHANGED <<lines, read_end, command, run_result, engine_rest, dvars, bvars,
                   cvars>>

\* One iteration of the for loop over executions: the statement is written,
\* the stream is drained with `items?`, the batches are written.
ReplConsume ==
    /\ repl_pc = "streams"
    /\ repl_executions # <<>>
    /\ IF Head(repl_executions) = "error"
       THEN /\ output' = Append(output, "$")
            /\ run_result' = "Err"
            /\ repl_pc' = "returned"
            /\ UNCHANGED repl_executions
       ELSE /\ output' = output \o <<"$", "Results:">>
            /\ repl_executions' = Tail(repl_executions)
            /\ UNCHANGED <<run_result, repl_pc>>
    /\ UNCHANGED <<lines, read_end, command, passed, exec_result,
                   fs_name_to_table_name, engine_rest, dvars, bvars, cvars>>

\* The for loop is over: back to the head of the while loop.
ReplNextLine ==
    /\ repl_pc = "streams"
    /\ repl_executions = <<>>
    /\ repl_pc' = "prompt"
    /\ UNCHANGED <<lines, read_end, command, repl_executions, output, passed,
                   exec_result, run_result, fs_name_to_table_name, engine_rest,
                   dvars, bvars, cvars>>

\* After the loop: "Goodbye!" is written and run returns Ok.
ReplGoodbye ==
    /\ repl_pc = "goodbye"
    /\ output' = Append(output, "Goodbye!")
    /\ run_result' = "Ok"
    /\ repl_pc' = "returned"
    /\ UNCHANGED <<lines, read_end, command, repl_executions, passed, exec_result,
                   fs_name_to_table_name, engine_rest, dvars, bvars, cvars>>

NextRepl ==
    \/ ReplReadLine
    \/ \E outcome \in Outcomes, commits \in SUBSET files : ReplExecute(outcome, commits)
    \/ ReplConsume
    \/ ReplNextLine
    \/ ReplGoodbye

SpecRepl == InitRepl /\ [][NextRepl]_vars

----------------------------------------------------------------------------
(* Properties of load_tables and execute (Spec) *)

Refs == statement.refs

\* The statement of the current iteration has been through load_tables' visit
\* (ParseError leaves no statement).
Visited == pc \in {"register", "loop", "done"} /\ StmtIdx >= 1 /\ result # "ParseError"

\* load_tables has returned the rewritten statement and the engine was given it.
Submitted == Visited /\ pc \in {"loop", "done"} /\ Len(submitted) = StmtIdx

\* execute is past load_tables for the current statement, however it ended.
LoadTablesOver == Visited /\ pc \in {"loop", "done"}

RegCallsFor(f) == {j \in 1..Len(reg_calls) : reg_calls[j].fs = f}

Occurrences(f) == {i \in 1..Len(Refs) : Refs[i] = f}

\* C1: a reference to an identifier the registry held when load_tables began is
\* rewritten to the name the registry holds for it, is not pushed to new_tables,
\* causes no registration call, and its registry entry stays as it was; a
\* statement of such references only leaves the whole registry as it was.
C1_RegisteredReferenceReused ==
    Visited =>
        /\ \A i \in 1..Len(Refs) :
              Refs[i] \in DOMAIN reg_before =>
                  /\ rewritten[i] = reg_before[Refs[i]]
                  /\ \A j \in 1..Len(new_tables) : new_tables[j][1] # Refs[i]
                  /\ RegCallsFor(Refs[i]) = {}
                  /\ Refs[i] \in DOMAIN fs_name_to_table_name
                  /\ fs_name_to_table_name[Refs[i]] = reg_before[Refs[i]]
        /\ (\A i \in 1..Len(Refs) : Refs[i] \in DOMAIN reg_before) =>
              /\ reg_calls = <<>>
              /\ fs_name_to_table_name = reg_before

\* A statement referencing an identifier registered earlier was run by the engine.
C1_Witness ==
    /\ Submitted
    /\ pc = "loop"
    /\ \E i \in 1..Len(Refs) : Refs[i] \in DOMAIN reg_before

\* C2: when a statement references a not yet registered identifier twice or
\* more, load_tables rewrites every occurrence to the same name, makes exactly
\* one registration call for it, and the statement is given to the engine
\* (stated for an identifier whose file the engine could register).
C2_OneRegistrationForRepeatedReference ==
    LoadTablesOver =>
        \A f \in files :
            (/\ Cardinality(Occurrences(f)) >= 2
             /\ f \notin DOMAIN reg_before
             /\ f \in DOMAIN fs_name_to_table_name) =>
                /\ \A i \in Occurrences(f) :
                      rewritten[i] = derive_table_from_fs_name(f)
                /\ Cardinality(RegCallsFor(f)) = 1
                /\ Submitted

\* Every registration call load_tables made for f failed.
RegistrationFailed(f) ==
    /\ RegCallsFor(f) # {}
    /\ \A j \in RegCallsFor(f) : ~reg_calls[j].ok

\* C3: if registration of a referenced identifier fails, the statement
\* load_tables returns still holds the reference as the original token, and the
\* registry holds no entry for the identifier.
C3_FailedReferenceKeptLiteral ==
    Submitted =>
        \A f \in files :
            RegistrationFailed(f) =>
                /\ \A i \in Occurrences(f) : rewritten[i] = f
                /\ f \notin DOMAIN fs_name_to_table_name

\* The identifiers of the statement the registry did not hold, in visiting order.
RECURSIVE NewRefs(_, _)
NewRefs(refs, registry) ==
    IF refs = <<>> THEN <<>>
    ELSE (IF Head(refs) \in DOMAIN registry THEN <<>> ELSE <<Head(refs)>>)
             \o NewRefs(Tail(refs), registry)

\* C4: for each engine a failed registration is not fatal: load_tables returns a
\* statement and no error, registration of the statement's other new
\* identifiers is attempted, and the engine is given the statement.
C4_RegistrationFailureNotFatal ==
    (LoadTablesOver /\ \E j \in 1..Len(reg_calls) : ~reg_calls[j].ok) =>
        /\ result # "RegisterError"
        /\ [j \in 1..Len(reg_calls) |-> reg_calls[j].fs] = NewRefs(Refs, reg_before)
        /\ Submitted

Letters ==
    {"a", "b", "c", "d", "e", "f", "g", "h", "i", "j", "k", "l", "m", "n", "o",
     "p", "q", "r", "s", "t", "u", "v", "w", "x", "y", "z",
     "A", "B", "C", "D", "E", "F", "G", "H", "I", "J", "K", "L", "M", "N", "O",
     "P", "Q", "R", "S", "T", "U", "V", "W", "X", "Y", "Z"}

Digits == {"0", "1", "2", "3", "4", "5", "6", "7", "8", "9"}

\* An unquoted SQL identifier: letters, digits and underscores, no leading digit.
IsUnquotedIdentifier(name) ==
    /\ name # <<>>
    /\ \A i \in 1..Len(name) : name[i] \in Letters \cup Digits \cup {"_"}
    /\ name[1] \notin Digits

\* C7: every name substituted into a rewritten statement and every name sent
\* to the engine in a registration call is a valid unquoted SQL identifier.
C7_NamesAreUnquotedIdentifiers ==
    Visited =>
        /\ \A i \in 1..Len(rewritten) : IsUnquotedIdentifier(rewritten[i])
        /\ \A j \in 1..Len(reg_calls) : IsUnquotedIdentifier(reg_calls[j].name)

\* C8: the registry is append-only: no step removes a key or changes the name a
\* key maps to.
C8_RegistryAppendOnly ==
    [][\A f \in DOMAIN fs_name_to_table_name :
          /\ f \in DOMAIN fs_name_to_table_name'
          /\ fs_name_to_table_name'[f] = fs_name_to_table_name[f]]_vars

\* A statement found an entry in the registry and added another one.
C8_Witness ==
    /\ LoadTablesOver
    /\ reg_before # EmptyMap
    /\ DOMAIN fs_name_to_table_name # DOMAIN reg_before

HasMalformed(q) == \E i \in 1..Len(q) : ~q[i]

\* C10: when a statement of the query text fails to parse, execute returns the
\* parse error at once: the call never rewrites, registers or runs a statement,
\* and the step that returns the error leaves registry and catalog as they were.
C10_ParseErrorBeforeAnyEffect ==
    /\ [](HasMalformed(query) =>
             /\ pc = "done"
             /\ result = "ParseError"
             /\ rewritten = <<>>
             /\ reg_calls = <<>>
             /\ submitted = <<>>
             /\ executions = <<>>)
    /\ [][(pc = "idle" /\ HasMalformed(query')) =>
             /\ fs_name_to_table_name' = fs_name_to_table_name
             /\ catalog' = catalog]_vars

\* A malformed statement followed a well-formed one, on an instance that
\* already held a registration.
C10_Witness ==
    /\ pc = "done"
    /\ result = "ParseError"
    /\ Len(query) >= 2
    /\ query[1]
    /\ fs_name_to_table_name # EmptyMap

----------------------------------------------------------------------------
(* Properties of derive_table_from_fs_name (SpecDerive) *)

\* "tbl_events_parquet"
TblEventsParquet ==
    <<"t","b","l","_","e","v","e","n","t","s","_","p","a","r","q","u","e","t">>
\* "tbl_b_c_parquet"
TblBCParquet == <<"t","b","l","_","b","_","c","_","p","a","r","q","u","e","t">>
\* "tbl_b_c__parquet"
TblBCStarParquet == <<"t","b","l","_","b","_","c","_","_","p","a","r","q","u","e","t">>

Derived == d_out # NotCalled

\* C5 as spec.md states it: "data/events.parquet" yields tbl_events_parquet and
\* "a/b-c*.parquet" yields tbl_b_c_parquet.
C5_SpecExamples ==
    Derived =>
        /\ d_in = FsEvents => d_out = TblEventsParquet
        /\ d_in = FsGlob => d_out = TblBCParquet

\* C5 amended: "data/events.parquet" yields tbl_events_parquet and
\* "a/b-c*.parquet" yields tbl_b_c__parquet, one underscore for '*' and one
\* for '.'.
C5_SpecExamplesAmended ==
    Derived =>
        /\ d_in = FsEvents => d_out = TblEventsParquet
        /\ d_in = FsGlob => d_out = TblBCStarParquet

C5_Witness == Derived /\ d_in = FsGlob

\* The position of the last '/' of s, 0 if it has none.
LastSlash(s) ==
    IF \E i \in 1..Len(s) : s[i] = "/"
    THEN CHOOSE i \in 1..Len(s) :
             s[i] = "/" /\ \A k \in (i + 1)..Len(s) : s[k] # "/"
    ELSE 0

Underscored(c) == IF c \in {".", "-", "*"} THEN "_" ELSE c

\* C6: for every identifier, the empty one and those ending in '/' included,
\* the derived name is "tbl_" followed by the text after the last '/' with each
\* '.', '-' and '*' turned into one '_' and every other character kept; a
\* longer path to the same final component derives the same name.
C6_DerivationRule ==
    Derived =>
        /\ d_out # Panic
        /\ d_out = TblPrefix \o
                     [i \in 1..(Len(d_in) - LastSlash(d_in)) |->
                         Underscored(d_in[LastSlash(d_in) + i])]
        /\ \A c \in Alphabet :
              derive_table_from_fs_name(<<c, "/">> \o d_in) = d_out

\* An identifier with a leading directory and a trailing '/'.
C6_Witness ==
    /\ Derived
    /\ Len(d_in) >= 3
    /\ d_in[Len(d_in)] = "/"
    /\ d_in[1] # "/"
    /\ d_out = TblPrefix

\* execute returned an error that load_tables or the engine raised for the
\* statement of the current iteration.
StatementFailed == result \in {"RegisterError", "ExecuteError"}

\* C11: if the rewriting or the execution of statement k fails, execute returns
\* an error and stops there: only statements 1..k were ever given to the engine,
\* the statements after k stay unvisited, and the only step left is the caller
\* taking the error, which rewrites nothing, registers nothing and submits
\* nothing.
C11_FailureEndsTheCall ==
    /\ [](StatementFailed =>
            /\ pc = "done"
            /\ Len(executions) = StmtIdx - 1
            /\ \A i \in 1..Len(submitted) : submitted[i] <= StmtIdx)
    /\ [][StatementFailed =>
            /\ pc' = "idle"
            /\ fs_name_to_table_name' = fs_name_to_table_name
            /\ catalog' = catalog
            /\ reg_ok' = reg_ok]_vars

\* A statement failed in the engine while another statement of the same query
\* was still waiting behind it.
C11_Witness ==
    /\ pc = "done"
    /\ result = "ExecuteError"
    /\ ast # <<>>
    /\ StmtIdx = 1

\* C12: when execute returns an error the registry holds exactly the entries
\* whose registration succeeded, those the failed call committed included, each
\* under its derived name and registered with the engine; the caller taking the
\* error leaves registry and catalog as they are and the instance idle, ready
\* for the next execute.
C12_InstanceUsableAfterError ==
    /\ [](pc = "done" /\ result \in ErrorResults =>
            /\ DOMAIN fs_name_to_table_name = reg_ok
            /\ call_regs \subseteq DOMAIN fs_name_to_table_name
            /\ \A f \in DOMAIN fs_name_to_table_name :
                  /\ fs_name_to_table_name[f] = derive_table_from_fs_name(f)
                  /\ fs_name_to_table_name[f] \in DOMAIN catalog)
    /\ [][pc = "done" /\ result \in ErrorResults =>
            /\ pc' = "idle"
            /\ after_error'
            /\ executions' = <<>>
            /\ fs_name_to_table_name' = fs_name_to_table_name
            /\ catalog' = catalog]_vars

\* The call after one that returned an error returns a stream for a statement
\* whose reference the registry already held.
C12_Witness ==
    /\ after_error
    /\ pc = "done"
    /\ result = "Ok"
    /\ Len(executions) = 1
    /\ Len(executions[1].statement.refs) = 1
    /\ executions[1].statement.refs[1] \in DOMAIN reg_before

\* C13: a call whose statements all succeed returns one pair per statement; the
\* pairs are pushed one per iteration at the end of executions and stay where
\* they are, and the statement of each pair is the statement as parsed, not
\* the rewritten one the engine was given.
C13_OnePairPerStatementInOrder ==
    /\ [](result = "Ok" => Len(executions) = Len(query))
    /\ [](pc = "loop" /\ StmtIdx >= 1 =>
            /\ Len(executions) = StmtIdx
            /\ executions[StmtIdx].statement = statement
            /\ executions[StmtIdx].stream.names = rewritten)
    /\ [][pc' # "idle" =>
            /\ Len(executions') >= Len(executions)
            /\ SubSeq(executions', 1, Len(executions)) = executions]_vars

\* Two different statements, both rewritten, came back in their order.
C13_Witness ==
    /\ engine \in {"Polars", "DataFusion"}
    /\ result = "Ok"
    /\ Len(executions) = 2
    /\ executions[1].statement # executions[2].statement
    /\ executions[2].statement = statement
    /\ \A i \in 1..2 :
          /\ executions[i].statement.refs # <<>>
          /\ executions[i].stream.names # executions[i].statement.refs

\* C19: DuckDB's execute does not crash on a successfully executed statement,
\* whatever the number of batches of its result, zero included, and the stream
\* it returns yields exactly those batches in order.
C19_DuckDBStreamForAnyBatchCount ==
    engine = "DuckDB" =>
        /\ pc # "crashed"
        /\ \A i \in 1..Len(executions) :
              executions[i].stream.batches
                  = [j \in 1..Len(executions[i].stream.batches) |-> j]

\* C20: statements are processed one after another: while statement k is in
\* the loop, statements 1..k-1 have been given to the engine and have their
\* pair, statement k has its pair only once its own registrations and run are
\* over, and every identifier an earlier statement of the call committed was a
\* registry hit when statement k was rewritten.
C20_StatementsStrictlySequential ==
    Visited /\ pc \in {"register", "loop"} =>
        /\ Len(executions) = (IF pc = "loop" THEN StmtIdx ELSE StmtIdx - 1)
        /\ Len(submitted) = Len(executions)
        /\ \A i \in 1..Len(submitted) : submitted[i] = i
        /\ \A f \in call_regs :
              \/ \E j \in RegCallsFor(f) : reg_calls[j].ok
              \/ /\ f \in DOMAIN reg_before
                 /\ RegCallsFor(f) = {}
                 /\ \A i \in Occurrences(f) : rewritten[i] = reg_before[f]

\* Statement 2 refers to an identifier that statement 1 of the same call
\* registered, and finds it in the registry.
C20_Witness ==
    /\ pc = "register"
    /\ StmtIdx = 2
    /\ new_tables = <<>>
    /\ \E f \in call_regs :
          /\ f \in DOMAIN reg_before
          /\ Occurrences(f) # {}
          /\ RegCallsFor(f) = {}

\* The reference is the table name of a registry entry.
IsRegisteredName(ref, registry) == \E f \in DOMAIN registry : registry[f] = ref

\* C22: a reference whose text is a table name the registry already holds is
\* left as it is by load_tables and causes no registration call.
C22_RewriteStableOnTableNames ==
    LoadTablesOver =>
        \A i \in 1..Len(Refs) :
            IsRegisteredName(Refs[i], reg_before) =>
                /\ rewritten[i] = Refs[i]
                /\ RegCallsFor(Refs[i]) = {}

\* C23: the engine table a registry entry names is backed by the file of the
\* entry's identifier, and a statement the engine ran read, for each of its
\* references, the file the reference names.
C23_RegistryEntryBackedByOwnFile ==
    /\ \A f \in DOMAIN fs_name_to_table_name :
          /\ fs_name_to_table_name[f] \in DOMAIN catalog
          /\ catalog[fs_name_to_table_name[f]] = f
    /\ (pc = "loop" /\ StmtIdx >= 1) =>
          \A i \in 1..Len(Refs) : catalog[rewritten[i]] = Refs[i]

\* C24: execute hands back either one stream per statement of the query or an
\* error and no stream; when statement k fails the k-1 streams built before it
\* are not handed back, while the registry entries the call committed stay.
C24_AllStreamsOrErrorOnly ==
    /\ returned # <<>> <=> pc = "done"
    /\ returned # <<>> =>
          \/ /\ returned[1].ok
             /\ result = "Ok"
             /\ returned[1].streams = executions
             /\ Len(returned[1].streams) = Len(query)
          \/ /\ ~returned[1].ok
             /\ result \in ErrorResults
             /\ returned[1].streams = <<>>
    /\ StatementFailed =>
          /\ Len(executions) = StmtIdx - 1
          /\ call_regs \subseteq DOMAIN fs_name_to_table_name

\* Statement 2 failed after statement 1 had its stream built and its
\* identifier committed.
C24_Witness ==
    /\ StatementFailed
    /\ StmtIdx = 2
    /\ Len(executions) = 1
    /\ returned[1].streams = <<>>
    /\ call_regs # {}

\* C25: a statement referencing an identifier whose registration has failed
\* before, and which the registry still does not hold, attempts its
\* registration again, and an attempt that succeeds adds it to the registry.
C25_RegistrationFailureNotCached ==
    (LoadTablesOver /\ result # "RegisterError") =>
        \A f \in reg_failed :
            (Occurrences(f) # {} /\ f \notin DOMAIN reg_before) =>
                /\ RegCallsFor(f) # {}
                /\ (\E j \in RegCallsFor(f) : reg_calls[j].ok)
                      => f \in DOMAIN fs_name_to_table_name

\* The registration of an identifier failed for an earlier statement and has
\* now succeeded at the first attempt of this statement.
C25_Witness ==
    /\ engine \in {"Polars", "DataFusion"}
    /\ LoadTablesOver
    /\ \E f \in reg_failed :
          /\ reg_calls = <<[fs |-> f, name |-> derive_table_from_fs_name(f),
                            ok |-> TRUE]>>
          /\ f \in DOMAIN fs_name_to_table_name
          /\ f \notin DOMAIN reg_before

----------------------------------------------------------------------------
(* Properties of the Polars bridge (SpecBridge, SpecBridgeLive) *)

OkBatch(i) == [batch |-> i, ok |-> TRUE]

EncoderOver == encoder.pc \in {"done", "failed", "broken"}

DecoderOver == decoder.pc \in {"done", "failed"}

\* The stream has yielded every batch of the frame and then None, and both
\* workers have returned.
BridgeComplete ==
    /\ ended
    /\ received = [i \in 1..frame.batches |-> OkBatch(i)]
    /\ encoder.pc = "done"
    /\ decoder.pc = "done"

\* The bytes the encoder has written to the pipe, and the bytes of them that
\* have left the bridge: the schema message to try_new, the batches to the
\* consumer.
BytesWritten == encoder.msg * frame.bytes + (frame.bytes - encoder.rem)

BytesTaken ==
    Len(received) * frame.bytes + (IF decoder.pc = "open" THEN 0 ELSE frame.bytes)

\* C14: in every state of every interleaving of encoder, decoder and consumer
\* the i-th item the consumer has received is the i-th batch of the frame, the
\* queued items continue that sequence, and no item is ahead of what the
\* encoder has written; without a failure every item is the batch itself.
C14_ReceivedIsPrefixOfProduced ==
    /\ \A i \in 1..Len(received) : received[i].batch = i
    /\ Len(received) <= encoder.msg
    /\ Len(received) <= frame.batches
    /\ datafusion_rx = "open" =>
          \A i \in 1..Len(queue) : queue[i].batch = Len(received) + i
    /\ faults = {} => \A i \in 1..Len(received) : received[i] = OkBatch(i)

\* The consumer has taken two batches while more are queued, in the pipe and
\* still to be written.
C14_Witness ==
    /\ faults = {}
    /\ Len(received) = 2
    /\ Len(queue) >= 2
    /\ pipe # <<>>
    /\ encoder.pc = "write"
    /\ decoder.pc = "send"

\* C15: with workers that do not fail and a consumer that keeps polling, the
\* stream delivers every batch of the frame and ends and both workers return,
\* whatever the number and the size of the batches; until then one of the
\* three can always take a step.
C15_StreamDeliversAllAndEnds ==
    /\ <>(BridgeComplete \/ faults # {} \/ datafusion_rx = "dropped")
    /\ [](faults = {} /\ datafusion_rx = "open" /\ ~BridgeComplete =>
            ENABLED (EncoderStep \/ DecoderStep \/ ConsumerPoll))

\* A frame of more batches than the channel holds, each larger than the pipe,
\* has been delivered whole.
C15_Witness ==
    /\ BridgeComplete
    /\ frame.batches > QueueCapacity
    /\ frame.bytes > PipeCapacity

\* C16: the channel never holds more than QueueCapacity items nor the pipe more
\* than PipeCapacity bytes; the encoder writes only into free pipe space and
\* the decoder queues only into a channel with room; and what the encoder has
\* written and the bridge has not handed on is bounded by the two capacities
\* and one message, whatever the size of the frame.
C16_BridgeBuffersBounded ==
    /\ [](/\ Len(queue) <= QueueCapacity
          /\ PipeBytes(pipe) <= PipeCapacity
          /\ (faults = {} /\ datafusion_rx = "open" =>
                BytesWritten - BytesTaken
                    <= PipeCapacity + (QueueCapacity + 1) * frame.bytes))
    /\ [][/\ PipeBytes(pipe') > PipeBytes(pipe) => PipeBytes(pipe) < PipeCapacity
          /\ Len(queue') > Len(queue) => Len(queue) < QueueCapacity
          /\ (encoder.pc = "write" /\ arrow_client = "open"
                 /\ PipeBytes(pipe) = PipeCapacity)
                => encoder'.msg = encoder.msg /\ encoder'.rem = encoder.rem
          /\ (decoder.pc = "send" /\ datafusion_rx = "open"
                 /\ Len(queue) = QueueCapacity) => decoder' = decoder]_vars

\* Channel and pipe are full, the decoder holds an item it cannot queue and the
\* encoder has more to write.
C16_Witness ==
    /\ Len(queue) = QueueCapacity
    /\ PipeBytes(pipe) = PipeCapacity
    /\ decoder.pc = "send"
    /\ encoder.pc = "write"
    /\ datafusion_rx = "open"

\* C17: the stream can be dropped in every state in which it has not ended,
\* and once it is dropped the decoder and the encoder both return; an encoder
\* that returns with a broken pipe does so after the decoder has returned.
C17_DropEndsBothWorkers ==
    /\ [](datafusion_rx = "open" /\ ~ended => ENABLED ConsumerDrop)
    /\ [](encoder.pc = "broken" => DecoderOver)
    /\ (datafusion_rx = "dropped" ~> (DecoderOver /\ EncoderOver))

\* The stream was dropped with the channel and the pipe full and nothing yet
\* received; both workers have returned, the encoder with a broken pipe.
C17_Witness ==
    /\ datafusion_rx = "dropped"
    /\ frame.batches > QueueCapacity
    /\ received = <<>>
    /\ decoder.pc = "failed"
    /\ encoder.pc = "broken"
    /\ encoder.msg > QueueCapacity
    /\ PipeBytes(pipe) = PipeCapacity

\* C18: a failure in the bridge reaches the consumer as an error item, the
\* error item is the last item of the stream, and a stream that ends without
\* an error item has delivered the whole frame.
C18_FailureReachesConsumer ==
    /\ \A i \in 1..Len(received) : ~received[i].ok => i = Len(received)
    /\ (ended /\ faults # {}) => \E i \in 1..Len(received) : ~received[i].ok
    /\ (ended /\ \A i \in 1..Len(received) : received[i].ok)
          => Len(received) = frame.batches

----------------------------------------------------------------------------
(* Properties of Repl::run (SpecRepl) *)

C26_StreamErrorKeepsSession == run_result # "Err"

\* C27: Repl::run returns only after an exit word or the end of the input, it
\* returns Ok with "Goodbye!" as the last thing written, and no exit word was
\* given to the engine.
C27_StopsExactlyOnExitOrEof ==
    /\ \A i \in 1..Len(passed) : ~IsExitCommand(passed[i])
    /\ repl_pc = "returned" =>
          /\ run_result = "Ok"
          /\ output[Len(output)] = "Goodbye!"
          /\ \/ IsExitCommand(command) /\ exec_result = None
             \/ lines = <<>> /\ read_end = "eof"

----------------------------------------------------------------------------
(* polars_to_arrow: conversion of a polars-arrow schema into an arrow      *)
(* schema.  A data type is a record of its variant name, the scalar        *)
(* parameters of the variant, its child fields and its child types.        *)

\* Most fields of a schema.
MaxFields == 2
\* Deepest nesting of a field's type.
MaxDepth == 1

DataTypeOf(n, p, fs, ts) == [name |-> n, params |-> p, fields |-> fs, types |-> ts]
Leaf(n) == DataTypeOf(n, <<>>, <<>>, <<>>)
FieldOf(n, t, nl) == [name |-> n, data_type |-> t, is_nullable |-> nl]

Ok(v) == <<"Ok", v>>
Err(m) == <<"Err", m>>
IsOk(r) == r[1] = "Ok"

\* A usize is kept as <<hi, lo>> with value hi * 2^16 + lo, lo < 2^16.
USizeLimb == 65536
I32Limit == 32768
U8Max == 255
I8Max == 127
I32TryFrom(v) ==
    IF v[1] < I32Limit THEN Ok(v[1] * USizeLimb + v[2]) ELSE Err("TryFromIntError")
U8TryFrom(v) ==
    IF v[1] = 0 /\ v[2] <= U8Max THEN Ok(v[2]) ELSE Err("TryFromIntError")
I8TryFrom(v) ==
    IF v[1] = 0 /\ v[2] <= I8Max THEN Ok(v[2]) ELSE Err("TryFromIntError")

\* The variants that convert_datatype maps without looking inside them.
SimpleTypes ==
    [Null |-> "Null", Boolean |-> "Boolean",
     Int8 |-> "Int8", Int16 |-> "Int16", Int32 |-> "Int32", Int64 |-> "Int64",
     UInt8 |-> "UInt8", UInt16 |-> "UInt16", UInt32 |-> "UInt32",
     UInt64 |-> "UInt64",
     Float16 |-> "Float16", Float32 |-> "Float32", Float64 |-> "Float64",
     Date32 |-> "Date32", Date64 |-> "Date64",
     Binary |-> "Binary", LargeBinary |-> "LargeBinary",
     Utf8 |-> "Utf8", LargeUtf8 |-> "LargeUtf8",
     BinaryView |-> "BinaryView", Utf8View |-> "Utf8View"]

convert_int_type(int_type) ==
    CASE int_type = "Int8" -> Leaf("Int8")
      [] int_type = "Int16" -> Leaf("Int16")
      [] int_type = "Int32" -> Leaf("Int32")
      [] int_type = "Int64" -> Leaf("Int64")
      [] int_type = "UInt8" -> Leaf("UInt8")
      [] int_type = "UInt16" -> Leaf("UInt16")
      [] int_type = "UInt32" -> Leaf("UInt32")
      [] int_type = "UInt64" -> Leaf("UInt64")

convert_time_unit(time_unit) ==
    CASE time_unit = "Second" -> "Second"
      [] time_unit = "Millisecond" -> "Millisecond"
      [] time_unit = "Microsecond" -> "Microsecond"
      [] time_unit = "Nanosecond" -> "Nanosecond"

convert_interval_unit(interval_unit) ==
    CASE interval_unit = "YearMonth" -> "YearMonth"
      [] interval_unit = "DayTime" -> "DayTime"
      [] interval_unit = "MonthDayNano" -> "MonthDayNano"

\* Field::new(name, data_type, is_nullable) of convert_field.
AlwaysNullable(field) == TRUE
FieldNullable(field) == field.is_nullable

RECURSIVE convert_datatype(_)
RECURSIVE convert_field(_)
RECURSIVE CollectFields(_, _)

\* iter().map(convert_field).collect(): the fields in order, or the first
\* error; a panic of convert_field unwinds through the collect.
CollectFields(fields, acc) ==
    IF fields = <<>> THEN Ok(acc)
    ELSE LET f == convert_field(Head(fields)) IN
         IF IsOk(f) THEN CollectFields(Tail(fields), Append(acc, f[2])) ELSE f

convert_field(field) ==
    LET t == convert_datatype(field.data_type) IN
    IF IsOk(t)
    THEN Ok(FieldOf(field.name, t[2], FieldNullable(field)))
    ELSE t

convert_datatype(datatype) ==
    LET n == datatype.name
        p == datatype.params
    IN
    CASE n \in DOMAIN SimpleTypes -> Ok(Leaf(SimpleTypes[n]))
      [] n = "Timestamp" ->
            Ok(DataTypeOf("Timestamp", <<convert_time_unit(p[1]), p[2]>>, <<>>, <<>>))
      [] n \in {"Time32", "Time64", "Duration"} ->
            Ok(DataTypeOf(n, <<convert_time_unit(p[1])>>, <<>>, <<>>))
      [] n = "Interval" ->
            Ok(DataTypeOf("Interval", <<convert_interval_unit(p[1])>>, <<>>, <<>>))
      [] n = "FixedSizeBinary" ->
            LET size == I32TryFrom(p[1]) IN
            IF IsOk(size)
            THEN Ok(DataTypeOf("FixedSizeBinary", <<size[2]>>, <<>>, <<>>))
            ELSE size
      [] n \in {"List", "LargeList"} ->
            LET f == convert_field(datatype.fields[1]) IN
            IF IsOk(f) THEN Ok(DataTypeOf(n, <<>>, <<f[2]>>, <<>>)) ELSE f
      [] n = "FixedSizeList" ->
            LET f == convert_field(datatype.fields[1]) IN
            IF ~IsOk(f) THEN f
            ELSE LET size == I32TryFrom(p[1]) IN
                 IF IsOk(size)
                 THEN Ok(DataTypeOf("FixedSizeList", <<size[2]>>, <<f[2]>>, <<>>))
                 ELSE size
      [] n = "Struct" ->
            LET fields == CollectFields(datatype.fields, <<>>) IN
            IF IsOk(fields)
            THEN Ok(DataTypeOf("Struct", <<>>, fields[2], <<>>))
            ELSE fields
      [] n = "Union" -> Panic
      [] n = "Map" ->
            LET f == convert_field(datatype.fields[1]) IN
            IF IsOk(f) THEN Ok(DataTypeOf("Map", <<p[1]>>, <<f[2]>>, <<>>)) ELSE f
      [] n = "Dictionary" ->
            LET key == convert_int_type(p[1])
                value == convert_datatype(datatype.types[1])
            IN
            IF IsOk(value)
            THEN Ok(DataTypeOf("Dictionary", <<>>, <<>>, <<key, value[2]>>))
            ELSE value
      [] n \in {"Decimal", "Decimal256"} ->
            LET precision == U8TryFrom(p[1]) IN
            IF ~IsOk(precision) THEN precision
            ELSE LET scale == I8TryFrom(p[2]) IN
                 IF ~IsOk(scale) THEN scale
                 ELSE Ok(DataTypeOf(IF n = "Decimal" THEN "Decimal128" ELSE "Decimal256",
                                    <<precision[2], scale[2]>>, <<>>, <<>>))
      [] n = "Extension" -> Err("Polars Extension datatype not supported in arrow.")
      [] n = "Unknown" -> Err("Polars Unknown datatype not supported in arrow.")

convert_schema(schema) == CollectFields(schema, <<>>)

(* The polars schemas explored. *)

SizeSamples == {<<0, 16>>, <<32767, 65535>>, <<32768, 0>>, <<65536, 16>>}
DecimalSamples ==
    {<<<<0, 38>>, <<0, 10>>>>, <<<<0, 255>>, <<0, 127>>>>,
     <<<<0, 256>>, <<0, 10>>>>, <<<<0, 38>>, <<0, 128>>>>,
     <<<<65536, 38>>, <<0, 266>>>>}

ParamLeaves ==
    {DataTypeOf("Timestamp", <<"Second", <<>>>>, <<>>, <<>>),
     DataTypeOf("Timestamp", <<"Nanosecond", <<"UTC">>>>, <<>>, <<>>),
     DataTypeOf("Time32", <<"Millisecond">>, <<>>, <<>>),
     DataTypeOf("Time64", <<"Microsecond">>, <<>>, <<>>),
     DataTypeOf("Duration", <<"Second">>, <<>>, <<>>),
     DataTypeOf("Interval", <<"YearMonth">>, <<>>, <<>>),
     DataTypeOf("Interval", <<"DayTime">>, <<>>, <<>>),
     DataTypeOf("Interval", <<"MonthDayNano">>, <<>>, <<>>),
     DataTypeOf("Union", <<>>, <<>>, <<>>),
     DataTypeOf("Extension", <<>>, <<>>, <<>>),
     DataTypeOf("Unknown", <<>>, <<>>, <<>>)}
    \cup {DataTypeOf("FixedSizeBinary", <<s>>, <<>>, <<>>) : s \in SizeSamples}
    \cup {DataTypeOf(n, <<d[1], d[2]>>, <<>>, <<>>) :
              n \in {"Decimal", "Decimal256"}, d \in DecimalSamples}

\* Every leaf variant, for the fields of the schema itself.
LeafTypes == {Leaf(n) : n \in DOMAIN SimpleTypes} \cup ParamLeaves

\* The leaves put inside list, struct, map and dictionary types.
NestedLeaves ==
    {Leaf("Int32"), Leaf("Utf8"),
     DataTypeOf("Timestamp", <<"Nanosecond", <<"UTC">>>>, <<>>, <<>>),
     DataTypeOf("FixedSizeBinary", <<<<32768, 0>>>>, <<>>, <<>>),
     DataTypeOf("Decimal", <<<<0, 38>>, <<0, 10>>>>, <<>>, <<>>),
     DataTypeOf("Union", <<>>, <<>>, <<>>),
     DataTypeOf("Extension", <<>>, <<>>, <<>>)}

Filler == FieldOf("n", Leaf("Int64"), FALSE)

\* The container types around one child type.
Containers(inner) ==
    LET items == {FieldOf("item", t, nl) : t \in inner, nl \in BOOLEAN} IN
    {DataTypeOf(n, <<>>, <<f>>, <<>>) : n \in {"List", "LargeList"}, f \in items}
    \cup {DataTypeOf("FixedSizeList", <<s>>, <<f>>, <<>>) :
              s \in {<<0, 16>>, <<65536, 16>>}, f \in items}
    \cup {DataTypeOf("Struct", <<>>, fs, <<>>) :
              fs \in {<<f>> : f \in items} \cup {<<Filler, f>> : f \in items}}
    \cup {DataTypeOf("Map", <<TRUE>>, <<f>>, <<>>) : f \in items}
    \cup {DataTypeOf("Dictionary", <<k, FALSE>>, <<>>, <<t>>) :
              k \in {"Int8", "UInt32"}, t \in inner}

RECURSIVE NestedTypes(_)
NestedTypes(depth) ==
    IF depth = 0 THEN NestedLeaves
    ELSE NestedLeaves \cup Containers(NestedTypes(depth - 1))

PlTypes ==
    IF MaxDepth = 0 THEN LeafTypes
    ELSE LeafTypes \cup Containers(NestedTypes(MaxDepth - 1))

\* The fields before and after the one drawn, distinct from each other.
FillerNames == <<"f1", "f2", "f3", "f4">>
Fillers(n) == [i \in 1..n |-> FieldOf(FillerNames[i], Leaf("Boolean"), i % 2 = 0)]

PlSchemas ==
    {<<>>} \cup
    {[Fillers(n) EXCEPT ![i] = FieldOf(name, t, nl)] :
        <<n, i>> \in {x \in (1..MaxFields) \X (1..MaxFields) : x[2] <= x[1]},
        name \in {"a", "b"}, t \in PlTypes, nl \in BOOLEAN}

InitConvert ==
    /\ c_in \in PlSchemas
    /\ c_pos = 0
    /\ c_out = NotCalled
    /\ d_in = <<>>
    /\ d_out = NotCalled
    /\ engine = "Polars"
    /\ files = {}
    /\ fs_name_to_table_name = EmptyMap
    /\ catalog = EmptyMap
    /\ pc = "idle"
    /\ query = <<>>
    /\ ast = <<>>
    /\ statement = NoStatement
    /\ rewritten = <<>>
    /\ new_tables = <<>>
    /\ executions = <<>>
    /\ result = None
    /\ reg_calls = <<>>
    /\ submitted = <<>>
    /\ reg_before = EmptyMap
    /\ reg_ok = {}
    /\ call_regs = {}
    /\ after_error = FALSE
    /\ returned = <<>>
    /\ reg_failed = {}
    /\ NoBridge
    /\ NoRepl

\* convert_schema(schema)
ConvertSchema ==
    /\ c_out = NotCalled
    /\ c_out' = convert_schema(c_in)
    /\ UNCHANGED <<c_in, c_pos, evars, dvars, bvars, rvars>>

\* convert_datatype(&schema.fields[i].data_type)
ConvertDatatype ==
    /\ c_out = NotCalled
    /\ \E i \in 1..Len(c_in) :
          /\ c_pos' = i
          /\ c_out' = convert_datatype(c_in[i].data_type)
    /\ UNCHANGED <<c_in, evars, dvars, bvars, rvars>>

NextConvert == ConvertSchema \/ ConvertDatatype

SpecConvert == InitConvert /\ [][NextConvert]_vars

----------------------------------------------------------------------------
(* Properties of polars_to_arrow *)

SchemaConverted == c_out # NotCalled /\ c_pos = 0
DatatypeConverted == c_out # NotCalled /\ c_pos >= 1

\* C29: for every polars data type, also an unsupported one and one nested in
\* a list, struct, map or dictionary type, the conversion returns a converted
\* type or an error value and never aborts the program.
C29_ConversionNeverAborts == c_out # Panic

FitsI32(v) == v[1] < I32Limit
FitsU8(v) == v[1] = 0 /\ v[2] <= U8Max
FitsI8(v) == v[1] = 0 /\ v[2] <= I8Max

\* The size, precision or scale of the type itself does not fit.
OutOfRange(t) ==
    \/ t.name \in {"FixedSizeBinary", "FixedSizeList"} /\ ~FitsI32(t.params[1])
    \/ t.name \in {"Decimal", "Decimal256"}
          /\ (~FitsU8(t.params[1]) \/ ~FitsI8(t.params[2]))

RECURSIVE Supported(_)
Supported(t) ==
    /\ t.name \notin {"Union", "Extension", "Unknown"}
    /\ ~OutOfRange(t)
    /\ \A i \in 1..Len(t.fields) : Supported(t.fields[i].data_type)
    /\ \A i \in 1..Len(t.types) : Supported(t.types[i])

AllSupported(schema) == \A i \in 1..Len(schema) : Supported(schema[i].data_type)

\* The arrow name of a polars variant: with exact, the same name; otherwise
\* the same name except that the 128-bit decimal is called Decimal128.
ArrowName(n, exact) == IF ~exact /\ n = "Decimal" THEN "Decimal128" ELSE n

RECURSIVE SameShape(_, _, _)
SameShape(pl, ar, exact) ==
    /\ ar.name = ArrowName(pl.name, exact)
    /\ Len(ar.fields) = Len(pl.fields)
    /\ \A i \in 1..Len(pl.fields) :
          /\ ar.fields[i].name = pl.fields[i].name
          /\ ar.fields[i].is_nullable = pl.fields[i].is_nullable
          /\ SameShape(pl.fields[i].data_type, ar.fields[i].data_type, exact)
    /\ pl.name = "Dictionary" =>
          /\ Len(ar.types) = 2
          /\ ar.types[1].name = pl.params[1]
          /\ SameShape(pl.types[1], ar.types[2], exact)

SchemaPreserved(exact) ==
    (SchemaConverted /\ AllSupported(c_in)) =>
        /\ IsOk(c_out)
        /\ Len(c_out[2]) = Len(c_in)
        /\ \A i \in 1..Len(c_in) :
              /\ c_out[2][i].name = c_in[i].name
              /\ c_out[2][i].is_nullable = c_in[i].is_nullable
              /\ SameShape(c_in[i].data_type, c_out[2][i].data_type, exact)

\* C28 as stated: for a schema whose field types are all supported,
\* convert_schema returns as many fields in the same order, each with the same
\* name, the same nullability and the same-named data type, recursively.
C28_SchemaPreservedSameNames == SchemaPreserved(TRUE)

\* C28 amended: the same, except that the polars Decimal type becomes the
\* arrow Decimal128 type.
C28_SchemaPreservedArrowNames == SchemaPreserved(FALSE)

\* A supported schema of two fields, one of them a struct holding a filler
\* field and a decimal field, has been converted.
C28_Witness ==
    /\ SchemaConverted
    /\ AllSupported(c_in)
    /\ Len(c_in) = 2
    /\ IsOk(c_out)
    /\ \E i \in 1..2 :
          /\ c_in[i].data_type.name = "Struct"
          /\ Len(c_in[i].data_type.fields) = 2
          /\ c_in[i].data_type.fields[2].data_type.name = "Decimal"
          /\ ~c_in[i].data_type.fields[2].is_nullable

\* C30: convert_datatype returns an error for a FixedSizeBinary or
\* FixedSizeList size that does not fit an i32 and for a Decimal precision or
\* scale that does not fit a u8 or an i8, and a size, precision or scale it
\* returns is the one it was given.
C30_OutOfRangeIsError ==
    DatatypeConverted =>
        LET t == c_in[c_pos].data_type IN
        /\ OutOfRange(t) => c_out[1] = "Err"
        /\ (IsOk(c_out) /\ t.name \in {"FixedSizeBinary", "FixedSizeList"}) =>
              /\ FitsI32(t.params[1])
              /\ c_out[2].params[1] = t.params[1][1] * USizeLimb + t.params[1][2]
        /\ (IsOk(c_out) /\ t.name \in {"Decimal", "Decimal256"}) =>
              /\ FitsU8(t.params[1]) /\ c_out[2].params[1] = t.params[1][2]
              /\ FitsI8(t.params[2]) /\ c_out[2].params[2] = t.params[2][2]

====
